---------------------------- MODULE Spec2Model ----------------------------
(***************************************************************************)
(* core_numeric: generic numeric algorithms (sum, mean, variance, max,     *)
(* transform_reduce) over containers, their variadic counterparts, and the *)
(* concepts (Iterable, Addable, Divisible, Comparable) that gate them.      *)
(*                                                                         *)
(* Every algorithm is a pure function, so each is an operator computed the *)
(* way the code computes it; a call is one action that applies it to the   *)
(* input chosen by Init.  The element type T is a template parameter, i.e. *)
(* part of the input.  Element types with run-time semantics here:         *)
(*   "size_t"   unsigned integer of W bits (arithmetic modulo 2^W); the    *)
(*              integral type for which T / std::size_t is again T         *)
(*   "int"      signed integer, arguments kept small enough that no signed *)
(*              overflow happens; int / std::size_t converts the int to    *)
(*              std::size_t first (usual arithmetic conversions)           *)
(*   "double"   binary floating point with a P-bit significand, used on    *)
(*              non-negative integer values, round-to-nearest-even         *)
(*   "Vector3D" the 3-component value type of test.cpp, ordered by squared *)
(*              magnitude                                                  *)
(***************************************************************************)
EXTENDS Integers, Sequences, FiniteSets

VARIABLES T, C, input, op, phase, result, rtype

vars == <<T, C, input, op, phase, result, rtype>>

(* ------------------------------ bounds --------------------------------- *)

\* width of std::size_t in the model
W == 4
\* longest container / argument pack drawn exhaustively
MaxLen == 4
\* small element values 0..MaxVal
MaxVal == 2
\* element values within MaxTop of the largest std::size_t value
MaxTop == 1
\* int arguments are drawn from -MaxArg..MaxArg
MaxArg == 3
\* significand width of double in the model
P == 3

Mod == 2 ^ W

(* --------------------------- element types ----------------------------- *)

NoValue == "none"

\* the outcome of a step that may fault (division by a zero count,
\* dereferencing the end() of a container): a value, or the fault
Ret(v) == [fault |-> FALSE, val |-> v]

Fault == [fault |-> TRUE, val |-> NoValue]

\* T{} : value-initialization
Zero(t) ==
    CASE t.name = "Vector3D" -> <<0, 0, 0>>
      [] OTHER -> 0

\* nearest value with a P-bit significand to num/den (num >= 0, den > 0),
\* ties to the even significand
RECURSIVE Granule(_, _, _)
Granule(num, den, g) ==
    IF num \div (den * g) < 2 ^ P THEN g ELSE Granule(num, den, 2 * g)

RoundNearestEven(num, den) ==
    LET g == Granule(num, den, 1)
        q == num \div (den * g)
        r == num - q * den * g
    IN  IF 2 * r < den * g THEN q * g
        ELSE IF 2 * r > den * g THEN (q + 1) * g
        ELSE IF q % 2 = 0 THEN q * g ELSE (q + 1) * g

\* a + b on two values of type t
Add(t, a, b) ==
    CASE t.name = "size_t" -> (a + b) % Mod
      [] t.name = "int" -> a + b
      [] t.name = "double" -> RoundNearestEven(a + b, 1)
      [] t.name = "Vector3D" -> <<a[1] + b[1], a[2] + b[2], a[3] + b[3]>>

\* a - b
Sub(t, a, b) ==
    CASE t.name = "size_t" -> (a - b) % Mod
      [] t.name = "int" -> a - b

\* a * b
Mul(t, a, b) ==
    CASE t.name = "size_t" -> (a * b) % Mod
      [] t.name = "int" -> a * b

\* a / n for a std::size_t count n; dividing by a zero count is the fault
DivCount(t, a, n) ==
    IF n = 0 THEN Fault
    ELSE CASE t.name = "size_t" -> Ret(a \div n)
           [] t.name = "int" -> Ret((a % Mod) \div n)

\* the type of a / n
DivType(t) ==
    IF t.div = "T" THEN t.name ELSE "size_t"

Mag2(v) == v[1] * v[1] + v[2] * v[2] + v[3] * v[3]

\* a > b
Greater(t, a, b) ==
    CASE t.name = "Vector3D" -> Mag2(a) > Mag2(b)
      [] OTHER -> a > b

(* ----------------------- types and their concepts ---------------------- *)

\* An element type is the set of operations it supports:
\*   add   T + T:            "T" (gives exactly T), "other" (well-formed,
\*                           another type), "none" (ill-formed)
\*   div   T / std::size_t:  likewise
\*   gt    T > T is well-formed and converts to bool
\*   sq    the body of variance is well-formed for T (valor - promedio and
\*         the squaring of its branch: diff * diff, or std::pow(diff, 2))
TSizeT == [name |-> "size_t", add |-> "T", div |-> "T", gt |-> TRUE, sq |-> TRUE]

TInt == [name |-> "int", add |-> "T", div |-> "other", gt |-> TRUE, sq |-> TRUE]

TDouble == [name |-> "double", add |-> "T", div |-> "T", gt |-> TRUE, sq |-> TRUE]

TVector3D == [name |-> "Vector3D", add |-> "T", div |-> "T", gt |-> TRUE, sq |-> FALSE]

Iterable(c) == c = "std::vector"

Addable(t) == t.add = "T"

Divisible(t) == t.div = "T"

Comparable(t) == t.gt

Algorithms ==
    {"sum", "mean", "variance", "max", "transform_reduce",
     "sum_variadic", "mean_variadic", "variance_variadic", "max_variadic"}

\* whether the call alg(...) builds: the requires-clause of the template
\* holds and its body is well-formed.  c is the container type of a
\* container algorithm, arity the size of a variadic one's argument pack.
Instantiable(alg, c, t, arity) ==
    CASE alg = "sum" -> Iterable(c) /\ Addable(t)
      [] alg = "mean" -> Iterable(c) /\ Divisible(t) /\ Addable(t)
      [] alg = "variance" -> Iterable(c) /\ Addable(t) /\ Divisible(t) /\ t.sq
      [] alg = "max" -> Iterable(c) /\ Comparable(t)
      [] alg = "transform_reduce" -> Iterable(c) /\ Addable(t)
      [] alg = "sum_variadic" -> arity >= 1 /\ Addable(t)
      [] alg = "mean_variadic" -> arity >= 1 /\ Addable(t) /\ t.div # "none"
      [] alg = "variance_variadic" ->
            arity >= 1 /\ Addable(t) /\ Divisible(t) /\ t.sq
      [] alg = "max_variadic" -> arity >= 1 /\ Comparable(t)

(* ------------------------ container algorithms ------------------------- *)

\* resultado = T{}; for each valor: resultado = resultado + valor
RECURSIVE sum_loop(_, _, _, _)
sum_loop(t, contenedor, i, resultado) ==
    IF i > Len(contenedor) THEN resultado
    ELSE sum_loop(t, contenedor, i + 1, Add(t, resultado, contenedor[i]))

\* mutant: the loop starts at the second element
sum_FromSecond(t, contenedor) == sum_loop(t, contenedor, 2, Zero(t))

sum(t, contenedor) == sum_loop(t, contenedor, 1, Zero(t))

\* mutant: no guard on an empty container
mean_NoGuard(t, contenedor) ==
    DivCount(t, sum(t, contenedor), Len(contenedor))

mean(t, contenedor) ==
    LET suma_total == sum(t, contenedor)
        n == Len(contenedor)
    IN  IF n = 0 THEN Ret(Zero(t)) ELSE DivCount(t, suma_total, n)

\* both branches of the if constexpr: diff * diff for an integral T,
\* std::pow(diff, 2) otherwise; on the types modelled here with variance
\* (integral ones) the first is taken
RECURSIVE variance_loop(_, _, _, _, _)
variance_loop(t, contenedor, promedio, i, acumulador) ==
    IF i > Len(contenedor) THEN acumulador
    ELSE LET diff == Sub(t, contenedor[i], promedio)
         IN  variance_loop(t, contenedor, promedio, i + 1,
                           Add(t, acumulador, Mul(t, diff, diff)))

\* mutant: the sample variance, dividing by n - 1
variance_Sample(t, contenedor) ==
    LET promedio == mean(t, contenedor)
        n == Len(contenedor)
    IN  IF promedio.fault THEN Fault
        ELSE LET acumulador ==
                     variance_loop(t, contenedor, promedio.val, 1, Zero(t))
             IN  IF n = 0 THEN Ret(Zero(t)) ELSE DivCount(t, acumulador, n - 1)

variance(t, contenedor) ==
    LET promedio == mean(t, contenedor)
        n == Len(contenedor)
    IN  IF promedio.fault THEN Fault
        ELSE LET acumulador ==
                     variance_loop(t, contenedor, promedio.val, 1, Zero(t))
             IN  IF n = 0 THEN Ret(Zero(t)) ELSE DivCount(t, acumulador, n)

\* *it : dereferencing the end() of the container is the fault
Deref(contenedor, i) ==
    IF i > Len(contenedor) THEN Fault ELSE Ret(contenedor[i])

\* mutant: a later element replaces the running maximum unless the running
\* maximum is strictly greater
RECURSIVE max_loop_TiesLast(_, _, _, _)
max_loop_TiesLast(t, contenedor, i, maximo) ==
    IF i > Len(contenedor) THEN maximo
    ELSE max_loop_TiesLast(t, contenedor, i + 1,
                           IF Greater(t, maximo, contenedor[i]) THEN maximo
                           ELSE contenedor[i])

RECURSIVE max_loop(_, _, _, _)
max_loop(t, contenedor, i, maximo) ==
    IF i > Len(contenedor) THEN maximo
    ELSE max_loop(t, contenedor, i + 1,
                  IF Greater(t, contenedor[i], maximo) THEN contenedor[i]
                  ELSE maximo)

\* mutant: the iterator is advanced twice before the loop
max_SkipSecond(t, contenedor) ==
    IF Len(contenedor) = 0 THEN Ret(Zero(t))
    ELSE LET maximo == Deref(contenedor, 1)
         IN  IF maximo.fault THEN Fault
             ELSE Ret(max_loop(t, contenedor, 3, maximo.val))

max(t, contenedor) ==
    IF Len(contenedor) = 0 THEN Ret(Zero(t))
    ELSE LET maximo == Deref(contenedor, 1)
         IN  IF maximo.fault THEN Fault
             ELSE Ret(max_loop(t, contenedor, 2, maximo.val))

\* the lambda of test.cpp: x * x
Square(t, x) == Mul(t, x, x)

RECURSIVE transform_reduce_loop(_, _, _, _)
transform_reduce_loop(t, contenedor, i, resultado) ==
    IF i > Len(contenedor) THEN resultado
    ELSE transform_reduce_loop(t, contenedor, i + 1,
                               Add(t, resultado, Square(t, contenedor[i])))

transform_reduce(t, contenedor) ==
    transform_reduce_loop(t, contenedor, 1, Zero(t))

(* ------------------------- variadic algorithms ------------------------- *)

\* (... + args): the fold over the pack, ((a1 + a2) + a3) + ...
RECURSIVE sum_variadic_fold(_, _, _, _)
sum_variadic_fold(t, args, i, acc) ==
    IF i > Len(args) THEN acc
    ELSE sum_variadic_fold(t, args, i + 1, Add(t, acc, args[i]))

sum_variadic(t, args) == sum_variadic_fold(t, args, 2, args[1])

\* suma / sizeof...(args)
mean_variadic(t, args) ==
    LET suma == sum_variadic(t, args)
    IN  DivCount(t, suma, Len(args))

\* temp_vec{first, args...}; variance(temp_vec)
variance_variadic(t, first, args) ==
    LET temp_vec == <<first>> \o args
    IN  variance(t, temp_vec)

max_aux(t, a, b) == IF Greater(t, a, b) THEN a ELSE b

\* ((max_val = max_aux(max_val, rest)), ...)
RECURSIVE max_variadic_fold(_, _, _, _)
max_variadic_fold(t, rest, i, max_val) ==
    IF i > Len(rest) THEN max_val
    ELSE max_variadic_fold(t, rest, i + 1, max_aux(t, max_val, rest[i]))

max_variadic(t, first, rest) == max_variadic_fold(t, rest, 1, first)

(* ------------------------------- inputs -------------------------------- *)

SeqsUpTo(S, n) == UNION {[1..k -> S] : k \in 0..n}

\* std::size_t elements: small ones and ones next to the largest value
SizeTVals == (0..MaxVal) \cup ((Mod - 1 - MaxTop)..(Mod - 1))

\* every constant sequence over the whole range of std::size_t
ConstSeqs == {[i \in 1..k |-> c] : c \in 0..(Mod - 1), k \in 1..MaxLen}

SizeTInputs ==
    SeqsUpTo(SizeTVals, MaxLen) \cup ConstSeqs \cup {<<1, 2, 3, 4, 5>>}

\* the vectors of test.cpp, and others of equal and of smaller magnitude
Vectors ==
    {<<1, 1, 1>>, <<2, 2, 2>>, <<0, 5, 0>>, <<5, 0, 0>>, <<0, 0, 0>>,
     <<1, -1, 1>>}

MaxInputs ==
    [t : {TVector3D}, s : SeqsUpTo(Vectors, MaxLen)]
    \cup [t : {TSizeT}, s : SizeTInputs \cup {<<3, 1, 4, 1, 5, 9, 2, 6>>}]

\* int arguments small enough that their sums do not overflow int
IntInputs == SeqsUpTo((-MaxArg)..MaxArg, MaxLen)

\* doubles holding integers, up to where consecutive integers are no longer
\* all representable
DoubleVals == {0, 1, 2, 2 ^ P - 1, 2 ^ P, 2 ^ P + 2}

DoubleInputs == SeqsUpTo(DoubleVals, MaxLen)

\* every element type, as the operations it supports
AllTypes ==
    [name : {"T"}, add : {"T", "other", "none"}, div : {"T", "other", "none"},
     gt : BOOLEAN, sq : BOOLEAN]

(* ------------------------------- calls --------------------------------- *)

Return(alg, r, rt) ==
    /\ op' = alg
    /\ phase' = IF r.fault THEN "fault" ELSE "returned"
    /\ result' = r.val
    /\ rtype' = rt
    /\ UNCHANGED <<T, C, input>>

\* the build rejects the call: nothing runs
Reject(alg) ==
    /\ op' = alg
    /\ phase' = "rejected"
    /\ result' = NoValue
    /\ rtype' = NoValue
    /\ UNCHANGED <<T, C, input>>

Call_sum ==
    /\ phase = "ready"
    /\ IF Instantiable("sum", C, T, Len(input))
       THEN Return("sum", Ret(sum(T, input)), T.name)
       ELSE Reject("sum")

Call_mean ==
    /\ phase = "ready"
    /\ IF Instantiable("mean", C, T, Len(input))
       THEN Return("mean", mean(T, input), T.name)
       ELSE Reject("mean")

Call_variance ==
    /\ phase = "ready"
    /\ IF Instantiable("variance", C, T, Len(input))
       THEN Return("variance", variance(T, input), T.name)
       ELSE Reject("variance")

Call_max ==
    /\ phase = "ready"
    /\ IF Instantiable("max", C, T, Len(input))
       THEN Return("max", max(T, input), T.name)
       ELSE Reject("max")

Call_transform_reduce ==
    /\ phase = "ready"
    /\ IF Instantiable("transform_reduce", C, T, Len(input))
       THEN Return("transform_reduce", Ret(transform_reduce(T, input)), T.name)
       ELSE Reject("transform_reduce")

Call_sum_variadic ==
    /\ phase = "ready"
    /\ IF Instantiable("sum_variadic", C, T, Len(input))
       THEN Return("sum_variadic", Ret(sum_variadic(T, input)), T.name)
       ELSE Reject("sum_variadic")

Call_mean_variadic ==
    /\ phase = "ready"
    /\ IF Instantiable("mean_variadic", C, T, Len(input))
       THEN Return("mean_variadic", mean_variadic(T, input), DivType(T))
       ELSE Reject("mean_variadic")

Call_variance_variadic ==
    /\ phase = "ready"
    /\ IF Instantiable("variance_variadic", C, T, Len(input))
       THEN Return("variance_variadic",
                   variance_variadic(T, Head(input), Tail(input)), T.name)
       ELSE Reject("variance_variadic")

Call_max_variadic ==
    /\ phase = "ready"
    /\ IF Instantiable("max_variadic", C, T, Len(input))
       THEN Return("max_variadic",
                   Ret(max_variadic(T, Head(input), Tail(input))), T.name)
       ELSE Reject("max_variadic")

\* the build of a call alg(...) for an element type given by its operations
Instantiate ==
    /\ phase = "ready"
    /\ \E alg \in Algorithms :
          IF Instantiable(alg, C, T, Len(input))
          THEN /\ op' = alg
               /\ phase' = "runtime"
               /\ UNCHANGED <<T, C, input, result, rtype>>
          ELSE Reject(alg)

(* --------------------------- specifications ---------------------------- *)

Ready ==
    /\ op = NoValue
    /\ phase = "ready"
    /\ result = NoValue
    /\ rtype = NoValue

\* the container algorithms on std::vector<std::size_t>
Init ==
    /\ T = TSizeT
    /\ C = "std::vector"
    /\ input \in SizeTInputs
    /\ Ready

Next ==
    \/ Call_sum
    \/ Call_mean
    \/ Call_variance
    \/ Call_max
    \/ Call_transform_reduce

Spec == Init /\ [][Next]_vars

\* max and max_variadic on Vector3D and std::size_t
InitMax ==
    /\ \E x \in MaxInputs : T = x.t /\ input = x.s
    /\ C = "std::vector"
    /\ Ready

NextMax ==
    \/ Call_max
    \/ Call_max_variadic

SpecMax == InitMax /\ [][NextMax]_vars

\* the variadic algorithms on int and std::size_t arguments
InitVariadic ==
    /\ \/ T = TInt /\ input \in IntInputs
       \/ T = TSizeT /\ input \in SizeTInputs
    /\ C = "std::vector"
    /\ Ready

NextVariadic ==
    \/ Call_sum_variadic
    \/ Call_mean_variadic
    \/ Call_variance_variadic
    \/ Call_max_variadic

SpecVariadic == InitVariadic /\ [][NextVariadic]_vars

\* the two sums on double arguments
InitFold ==
    /\ T = TDouble
    /\ C = "std::vector"
    /\ input \in DoubleInputs
    /\ Ready

NextFold ==
    \/ Call_sum
    \/ Call_sum_variadic

SpecFold == InitFold /\ [][NextFold]_vars

\* the build of every algorithm for every element type
InitGate ==
    /\ T \in AllTypes
    /\ C \in {"std::vector", "NoBeginEnd"}
    /\ input \in {<<>>, <<NoValue>>}
    /\ Ready

NextGate == Instantiate

SpecGate == InitGate /\ [][NextGate]_vars

(* ------------------------------ properties ----------------------------- *)

\* the sum of the elements in the integers
RECURSIVE MathSum(_)
MathSum(s) == IF s = <<>> THEN 0 ELSE Head(s) + MathSum(Tail(s))

\* the sum of the squared distances of the elements from m, in the integers
RECURSIVE MathSqDev(_, _)
MathSqDev(s, m) ==
    IF s = <<>> THEN 0
    ELSE (Head(s) - m) * (Head(s) - m) + MathSqDev(Tail(s), m)

\* the quotient of C++ for a signed dividend: truncated towards zero
TruncQuot(a, n) == IF a >= 0 THEN a \div n ELSE -((-a) \div n)

RemoveAt(s, i) == SubSeq(s, 1, i - 1) \o SubSeq(s, i + 1, Len(s))

RECURSIVE Perms(_)
Perms(s) ==
    IF s = <<>> THEN {<<>>}
    ELSE UNION {{<<s[i]>> \o p : p \in Perms(RemoveAt(s, i))} : i \in 1..Len(s)}

Returned(alg) == op = alg /\ phase = "returned"

\* no element of s compares strictly greater than s[i]
Maximal(t, s, i) == \A j \in 1..Len(s) : ~Greater(t, s[j], s[i])

EarliestMaximal(t, s) ==
    CHOOSE i \in 1..Len(s) :
        Maximal(t, s, i) /\ \A j \in 1..(i - 1) : ~Maximal(t, s, j)

\* s holds two different values, the earlier at i, neither greater than the
\* other and none greater than them
TieAt(t, s, i) ==
    \E j \in (i + 1)..Len(s) :
        s[i] # s[j] /\ Maximal(t, s, i) /\ Maximal(t, s, j)

\* > is a strict weak order on the elements of s
StrictWeakOrder(t, s) ==
    LET E == {s[i] : i \in 1..Len(s)}
        Inc(a, b) == ~Greater(t, a, b) /\ ~Greater(t, b, a)
    IN  /\ \A a \in E : ~Greater(t, a, a)
        /\ \A a, b, c \in E :
              Greater(t, a, b) /\ Greater(t, b, c) => Greater(t, a, c)
        /\ \A a, b, c \in E : Inc(a, b) /\ Inc(b, c) => Inc(a, c)

\* a1 + (a2 + (... + an))
RECURSIVE RightFold(_, _)
RightFold(t, s) ==
    IF Len(s) = 1 THEN s[1] ELSE Add(t, s[1], RightFold(t, Tail(s)))

AllEqual(s) == \A i \in 1..Len(s) : s[i] = s[1]

\* C1: max_variadic returns the earliest of its arguments that no argument
\* is strictly greater than, also when several different arguments tie.
C1_MaxVariadicEarliest ==
    op = "max_variadic" /\ Len(input) >= 1 =>
        /\ phase = "returned"
        /\ result = input[EarliestMaximal(T, input)]

\* C2: on a non-empty sequence ordered by a strict weak order, max returns
\* the element at the lowest index among those that no element is strictly
\* greater than; max of <<3, 1, 4, 1, 5, 9, 2, 6>> is 9.
C2_MaxEarliestMaximal ==
    op = "max" /\ input # <<>> /\ StrictWeakOrder(T, input) =>
        /\ phase = "returned"
        /\ result = input[EarliestMaximal(T, input)]
        /\ input = <<3, 1, 4, 1, 5, 9, 2, 6>> => result = 9

C2_Witness ==
    /\ Returned("max")
    /\ T = TVector3D
    /\ StrictWeakOrder(T, input)
    /\ \E i \in 1..Len(input) : TieAt(T, input, i) /\ result = input[i]

\* C3: on an empty sequence sum, mean, variance and max return T{} and no
\* step faults (no division by a zero count, no dereference).
C3_EmptyReturnsDefault ==
    input = <<>> /\ op \in {"sum", "mean", "variance", "max"} =>
        /\ phase = "returned"
        /\ result = Zero(T)

C3_Witness == input = <<>> /\ Returned("variance") /\ result = 0

\* C4: on a non-empty sequence of a W-bit unsigned type, sum is the total of
\* the elements modulo 2^W and mean is that sum divided by the count,
\* truncated; for <<1, 2, 3, 4, 5>> sum is 15 and mean is 3.
C4_SumAndMean ==
    /\ op = "sum" /\ input # <<>> =>
          /\ phase = "returned"
          /\ result = MathSum(input) % Mod
          /\ input = <<1, 2, 3, 4, 5>> => result = 15
    /\ op = "mean" /\ input # <<>> =>
          /\ phase = "returned"
          /\ result = (MathSum(input) % Mod) \div Len(input)
          /\ input = <<1, 2, 3, 4, 5>> => result = 3

C4_Witness ==
    /\ Returned("mean")
    /\ Len(input) >= 2
    /\ MathSum(input) >= Mod
    /\ result > 0

\* C5: sum, mean, variance and max of a non-empty sequence are those of each
\* of its permutations.
C5_PermutationInvariant ==
    input # <<>> /\ op \in {"sum", "mean", "variance", "max"} =>
        /\ phase = "returned"
        /\ \A p \in Perms(input) :
              /\ op = "sum" => sum(T, p) = result
              /\ op = "mean" => mean(T, p) = Ret(result)
              /\ op = "variance" => variance(T, p) = Ret(result)
              /\ op = "max" => max(T, p) = Ret(result)

C5_Witness ==
    /\ Returned("variance")
    /\ Cardinality(Perms(input)) >= 6
    /\ result > 0

\* C6: the variance of a non-empty sequence whose elements are all equal is
\* T{}, for every element value and every length.
C6_ConstantVarianceZero ==
    op = "variance" /\ input # <<>> /\ AllEqual(input) =>
        /\ phase = "returned"
        /\ result = Zero(T)

C8_MeanVariadicQuotient ==
    op = "mean_variadic" /\ Len(input) >= 1 =>
        /\ phase = "returned"
        /\ rtype = T.name
        /\ T = TInt => result = TruncQuot(MathSum(input), Len(input))
        /\ T = TSizeT => result = (MathSum(input) % Mod) \div Len(input)

\* C9: sum_variadic combines its arguments as the right-nested fold
\* a1 + (a2 + (... + an)).
C9_SumVariadicRightFold ==
    op = "sum_variadic" /\ Len(input) >= 1 =>
        /\ phase = "returned"
        /\ result = RightFold(T, input)

\* C10: no call of mean, variance or mean_variadic for a type without
\* T / count giving T, and no call of max or max_variadic for a type
\* without T > T, gets past the build.
C10_GatingTotal ==
    /\ op \in {"mean", "variance", "mean_variadic"} /\ ~Divisible(T) =>
          phase = "rejected"
    /\ op \in {"max", "max_variadic"} /\ ~Comparable(T) =>
          phase = "rejected"

=============================================================================
